---------------------------- MODULE Spec2Model ----------------------------
(***************************************************************************)
(* A model of the FlashBack FA scraper (src/flashback_scraper.py): the     *)
(* three-phase crawl of crawl_flashback_site, the semaphore-guarded page   *)
(* fetcher fetch_page, the navigation and media extractors, and the        *)
(* content-addressed downloader download_image.                            *)
(*                                                                         *)
(* Strings.  A URL (or an href) is a sequence of tokens; every token is    *)
(* the literal piece of text written in its name, and the string modelled  *)
(* is the concatenation of the tokens.  Substring and regular-expression   *)
(* searches of the source are evaluated token by token from the tables     *)
(* below; the tokens are chosen so that no searched pattern straddles a    *)
(* token boundary.  The empty sequence is the empty string; it also stands *)
(* for Python's None where the source tests the value for truth only.      *)
(***************************************************************************)
EXTENDS Integers, Sequences, FiniteSets, TLC

\* ------------------------------------------------------------------ bounds

\* Largest value of max_concurrent the model tries (the constructor's argument).
MaxConcurrent == 4

\* Largest number of anchors the home page's markup holds.
MaxAnchors == 2

\* ------------------------------------------------------------------ strings

None == << >>

\* Host pieces (scheme and authority).
HostTokens ==
    { "https://sites.google.com", "https://example.org",
      "https://lh3.googleusercontent.com" }

\* str.startswith, for the one-character prefixes the model needs.
StartsWith(tok, ch) ==
    CASE ch = "/" -> tok \in { "/view/", "/accueil", "/Accueil", "/police", "/gang",
                               "/catalogue", "/Catalogue", "/%63atalogue", "/imgA",
                               "/imgB",
                               "/imgH", "/wallpaper", "/pics", "/logo", "/" }
      [] ch = "?" -> tok \in { "?authuser=0", "?authuser=1", "?v=2" }
      [] ch = "#" -> tok \in { "#top" }
      [] OTHER    -> FALSE

\* urllib.parse.unquote on one token: %23 is '#', %25 is '%', %63 is 'c'.
UnquoteToken(tok) ==
    CASE tok = "%23top"       -> "#top"
      [] tok = "%2523top"     -> "%23top"
      [] tok = "/%63atalogue" -> "/catalogue"
      [] OTHER                -> tok

unquote(s) == [i \in 1..Len(s) |-> UnquoteToken(s[i])]

\* The tokens whose text contains `needle`; with ci the search ignores case
\* (re.IGNORECASE, or a search in s.lower()).
TokensWith(needle, ci) ==
    CASE needle = "reglement-flashback-fa" -> { "reglement-flashback-fa" }
      [] needle = "flashback"        -> { "reglement-flashback-fa" }
      [] needle = "reglement"        -> { "reglement-flashback-fa" }
      [] needle = "/view/"           -> { "/view/" }
      [] needle = "view/"            -> { "/view/" }
      [] needle = "sites.google.com" -> { "https://sites.google.com" }
      [] needle = "catalogue"        -> IF ci THEN { "/catalogue", "/Catalogue",
                                                       "catalogue-grid" }
                                             ELSE { "/catalogue", "catalogue-grid" }
      [] needle = "police"           -> { "/police" }
      [] needle = "gang"             -> { "/gang" }
      [] needle = "accueil"          -> IF ci THEN { "/accueil", "/Accueil" }
                                             ELSE { "/accueil" }
      [] needle = "wallpaper"        -> { "/wallpaper" }
      [] needle = "header"           -> { "header", "site-header", "main-header" }
      [] needle = "main"             -> { "main-header" }
      [] needle = "main.*header"     -> { "main-header" }
      [] needle = "hero"             -> { "hero" }
      [] needle = "banner"           -> { "banner" }
      [] needle = "cover"            -> { "cover" }
      [] needle = "background"       -> { "background-image: url(/logo.png)" }
      [] needle = "background-image" -> { "background-image: url(/logo.png)" }
      [] needle = "googleusercontent.com" -> { "https://lh3.googleusercontent.com" }
      [] needle = "lh3.google"       -> { "https://lh3.googleusercontent.com" }
      [] needle = "#"                -> { "#top" }
      [] needle = "?"                -> { "?authuser=0", "?authuser=1", "?v=2" }
      [] OTHER                       -> { }

\* needle in s  /  re.search(needle, s)
Contains(s, needle, ci) == \E i \in 1..Len(s) : s[i] \in TokensWith(needle, ci)

\* The index of the first token holding `needle`, Len(s)+1 when there is none.
FirstAt(s, needle) ==
    IF Contains(s, needle, FALSE)
    THEN CHOOSE i \in 1..Len(s) :
            /\ s[i] \in TokensWith(needle, FALSE)
            /\ \A j \in 1..(i-1) : s[j] \notin TokensWith(needle, FALSE)
    ELSE Len(s) + 1

\* s.split(ch)[0] for ch one of '#', '?': each token holding ch starts with it.
SplitFirst(s, ch) == SubSeq(s, 1, FirstAt(s, ch) - 1)

\* The value that stands for a raised ValueError.
ValueError == << "ValueError" >>

\* References urlsplit rejects ('Invalid IPv6 URL').
MalformedTokens == { "http://[" }

\* urllib.parse.urljoin(base, ref) for the shapes of reference the model uses:
\* an absolute URL, an absolute path, a query-only and a fragment-only reference;
\* a malformed reference raises ValueError.
urljoin(base, ref) ==
    IF ref = << >> THEN base
    ELSE IF ref[1] \in MalformedTokens THEN ValueError
    ELSE IF ref[1] \in HostTokens THEN ref
    ELSE IF StartsWith(ref[1], "/") THEN <<base[1]>> \o ref
    ELSE IF StartsWith(ref[1], "?") THEN SplitFirst(SplitFirst(base, "#"), "?") \o ref
    ELSE IF StartsWith(ref[1], "#") THEN SplitFirst(base, "#") \o ref
    ELSE LET path == SplitFirst(SplitFirst(base, "#"), "?")
             last == path[Len(path)]
         IN  IF Len(path) = 1 THEN path \o <<"/">> \o ref
             ELSE IF StartsWith(last, "/") /\ last # "/view/"
                  THEN SubSeq(path, 1, Len(path) - 1) \o <<"/">> \o ref
             ELSE IF last = "/view/" THEN path \o ref
             ELSE SubSeq(path, 1, Len(path) - 1) \o ref

\* ------------------------------------------------------- scope and normalizer

\* self.flashback_patterns, searched with re.IGNORECASE.
flashback_patterns ==
    << "reglement-flashback-fa", "flashback", "/view/", "sites.google.com" >>

is_flashback_url(url) ==
    \E k \in 1..Len(flashback_patterns) : Contains(url, flashback_patterns[k], TRUE)

\* A normalizer that returns every resolved URL.
InScopeAlways(full_url) == TRUE

\* The scope test normalize_url applies to the resolved, stripped, decoded URL.
InScope(full_url) == is_flashback_url(full_url)

\* A handler that lets the exception out.
ExceptReraises(exc) == exc

\* 'except Exception: return None'
ExceptReturns(exc) == None

normalize_url(url, base_url) ==
    LET joined   == urljoin(base_url, url)
        stripped == IF Contains(joined, "#", FALSE) THEN SplitFirst(joined, "#")
                    ELSE joined
        full_url == unquote(stripped)
    IN  IF joined = ValueError THEN ExceptReturns(joined)
        ELSE IF InScope(full_url) THEN full_url ELSE None

\* ------------------------------------------------------- navigation extractor

\* The allow-list of extract_navbar_urls, searched in href.lower().
nav_keywords ==
    { "reglement", "savoir", "aide", "discord", "services", "gouvernement",
      "ems", "pompier", "police", "army", "illegal", "gang", "orga", "petite",
      "frappe", "independant", "entreprise" }

\* A deny test that matches nothing.
IsCatalogueHrefNever(href) == FALSE

\* 'catalogue' in href.lower()
IsCatalogueHref(href) == Contains(href, "catalogue", TRUE)

\* First loop: normalized, not visited, not a catalogue href, an allow-listed href.
NavFirstLoop(hrefs, page_url, visited) ==
    { normalize_url(href, page_url) : href \in
        { h \in hrefs :
            /\ h # << >>
            /\ normalize_url(h, page_url) # None
            /\ normalize_url(h, page_url) \notin visited
            /\ ~IsCatalogueHref(h)
            /\ \E kw \in nav_keywords : Contains(h, kw, TRUE) } }

\* Second loop: hrefs holding 'view/' and the site name, catalogue hrefs excluded.
NavSecondLoop(hrefs, page_url) ==
    { normalize_url(href, page_url) : href \in
        { h \in hrefs :
            /\ h # << >>
            /\ Contains(h, "view/", FALSE)
            /\ Contains(h, "reglement-flashback-fa", FALSE)
            /\ ~IsCatalogueHref(h)
            /\ normalize_url(h, page_url) # None } }

\* hrefs: the href attributes of the page's anchors (soup.find_all('a', href=True)).
extract_navbar_urls(hrefs, page_url, visited) ==
    NavFirstLoop(hrefs, page_url, visited) \cup NavSecondLoop(hrefs, page_url)

\* ------------------------------------------------------------ media extractor

\* re.search(a + '.*' + b, s): a then b, in one token or in two tokens in order.
ContainsOrdered(s, a, b, abPattern) ==
    \/ Contains(s, abPattern, TRUE)
    \/ \E i \in 1..Len(s) : \E j \in (i+1)..Len(s) :
          s[i] \in TokensWith(a, TRUE) /\ s[j] \in TokensWith(b, TRUE)

\* should_skip_image(image_url, context); context is a sequence of attribute texts.
should_skip_image(image_url, context) ==
    \/ ContainsOrdered(image_url, "catalogue", "illegal", "catalogue.*illegal")
    \/ ContainsOrdered(image_url, "header", "background", "header.*background")
    \/ ContainsOrdered(image_url, "banner", "main", "banner.*main")
    \/ Contains(image_url, "wallpaper", TRUE)
    \/ Contains(image_url, "backdrop", TRUE)
    \/ /\ context # << >>
       /\ \/ ContainsOrdered(context, "main", "header", "main.*header")
          \/ ContainsOrdered(context, "hero", "banner", "hero.*banner")
          \/ ContainsOrdered(context, "cover", "background", "cover.*background")

\* The extensions of the regular expression \.(jpg|jpeg|png|gif|bmp|webp|svg).
ImageExtTokens == { ".jpg", ".jpeg", ".png", ".gif", ".bmp", ".webp", ".svg" }

\* re.search(r'\.(jpg|...)(\?|$)', full_url.lower())
HasImageExtension(full_url) ==
    \E i \in 1..Len(full_url) :
        /\ full_url[i] \in ImageExtTokens
        /\ (i = Len(full_url) \/ StartsWith(full_url[i+1], "?"))

normalize_image_url(url, base_url) ==
    LET full_url == unquote(urljoin(base_url, url))
    IN  IF HasImageExtension(full_url) THEN full_url
        ELSE IF \/ Contains(full_url, "googleusercontent.com", FALSE)
                \/ Contains(full_url, "ggpht.com", FALSE)
                \/ Contains(full_url, "lh3.google", FALSE)
             THEN full_url
        ELSE None

(***************************************************************************)
(* A document is a sequence of element nodes; node i's parent is the       *)
(* earlier node doc[i].parent, 0 for a child of the document root.  An     *)
(* absent or empty attribute is the empty string or the empty sequence.    *)
(***************************************************************************)
Elem(tag, class, id, style, parent) ==
    [ tag |-> tag, class |-> class, id |-> id, style |-> style, parent |-> parent,
      alt |-> "", title |-> "",
      src |-> << >>, data_src |-> << >>, data_lazy_src |-> << >>,
      data_original |-> << >>, srcset |-> << >> ]

\* An img element; srcset is the sequence of the URLs of its comma-separated entries.
Img(class, parent, src, data_src, srcset) ==
    [ tag |-> "img", class |-> class, id |-> "", style |-> "", parent |-> parent,
      alt |-> "", title |-> "",
      src |-> src, data_src |-> data_src, data_lazy_src |-> << >>,
      data_original |-> << >>, srcset |-> srcset ]

RECURSIVE Ancestors(_, _)
\* The proper ancestors of node i, nearest first (the walk img.parent, .parent, ...).
Ancestors(doc, i) ==
    IF doc[i].parent = 0 THEN << >>
    ELSE <<doc[i].parent>> \o Ancestors(doc, doc[i].parent)

Range(f) == { f[x] : x \in DOMAIN f }

AncOrSelf(doc, i) == {i} \cup Range(Ancestors(doc, i))

\* soup.find_all(['header', 'div'], class_=re.compile(r'header|banner|hero|cover', re.I))
HeaderRoot(n) ==
    /\ n.tag \in { "header", "div" }
    /\ \E p \in { "header", "banner", "hero", "cover" } : Contains(<<n.class>>, p, TRUE)

\* soup.find_all(attrs={'class': ...catalogue}) and soup.find_all(attrs={'id': ...})
CatalogueRoot(n) ==
    Contains(<<n.class>>, "catalogue", TRUE) \/ Contains(<<n.id>>, "catalogue", TRUE)

\* The nodes left in the tree after the three decompose() loops.
Kept(doc) ==
    { i \in 1..Len(doc) :
        \A a \in AncOrSelf(doc, i) : ~HeaderRoot(doc[a]) /\ ~CatalogueRoot(doc[a]) }

\* The value of attribute attr of an img as the loop uses it (for srcset the
\* first entry's URL: src.split(',')[0].split(' ')[0]).
AttrValue(n, attr) ==
    CASE attr = "src"           -> n.src
      [] attr = "data-src"      -> n.data_src
      [] attr = "data-lazy-src" -> n.data_lazy_src
      [] attr = "data-original" -> n.data_original
      [] attr = "srcset"        -> IF n.srcset = << >> THEN << >> ELSE n.srcset[1]

\* The inner loop over the attributes of one img: every non-empty attribute
\* whose normalized URL is an image and is not skipped contributes.
ImgCandidates(n, attrs, page_url, context) ==
    { normalize_image_url(AttrValue(n, a), page_url) : a \in
        { b \in attrs :
            /\ AttrValue(n, b) # << >>
            /\ normalize_image_url(AttrValue(n, b), page_url) # None
            /\ ~should_skip_image(normalize_image_url(AttrValue(n, b), page_url),
                                  context) } }

div_context(n) == << n.class, n.id, n.style >>

\* re.findall(r'background(?:-image)?:\s*url\(["\']?(.*?)["\']?\)', style)
StyleUrls(style) ==
    IF style = "background-image: url(/logo.png)" THEN { << "/logo", ".png" >> }
    ELSE { }

\* The loop over the remaining divs: the imgs below each div, then its CSS background.
DivPass(doc, page_url) ==
    UNION { 
        UNION { ImgCandidates(doc[i], { "src", "data-src", "data-lazy-src",
                                        "data-original", "srcset" }, page_url,
                              << doc[i].class, doc[i].alt, doc[i].title >>
                                  \o div_context(doc[d])) :
                i \in { k \in Kept(doc) : doc[k].tag = "img"
                                          /\ d \in Range(Ancestors(doc, k)) } }
        \cup
        ( IF /\ ~\E p \in { "header", "banner", "hero", "cover" } :
                    Contains(div_context(doc[d]), p, TRUE)
             /\ ~ContainsOrdered(div_context(doc[d]), "background", "large",
                                 "background.*large")
             /\ ~ContainsOrdered(div_context(doc[d]), "bg", "main", "bg.*main")
             /\ Contains(<<doc[d].style>>, "background", FALSE)
          THEN { normalize_image_url(m, page_url) : m \in
                   { u \in StyleUrls(doc[d].style) :
                       /\ normalize_image_url(u, page_url) # None
                       /\ ~should_skip_image(normalize_image_url(u, page_url),
                                             div_context(doc[d])) } }
          ELSE { } ) :
        d \in { k \in Kept(doc) : doc[k].tag = "div" } }

\* parent_context: for each ancestor, nearest first, its name, classes and id.
RECURSIVE parent_context(_, _)
parent_context(doc, anc) ==
    IF anc = << >> THEN << >>
    ELSE << doc[anc[1]].tag, doc[anc[1]].class, doc[anc[1]].id >>
            \o parent_context(doc, Tail(anc))

\* The second loop, over every img left in the tree.
TopLevelPass(doc, page_url) ==
    UNION { IF \E p \in { "header", "banner", "hero", "cover", "catalogue" } :
                  Contains(parent_context(doc, Ancestors(doc, i)), p, TRUE)
            THEN { }
            ELSE ImgCandidates(doc[i], { "src", "data-src", "data-lazy-src",
                                         "data-original" }, page_url,
                               parent_context(doc, Ancestors(doc, i))) :
            i \in { k \in Kept(doc) : doc[k].tag = "img" } }

extract_image_urls_from_html(doc, page_url) ==
    DivPass(doc, page_url) \cup TopLevelPass(doc, page_url)

\* ------------------------------------------------ the site (the environment)

Site == "https://sites.google.com"
Cdn  == "https://lh3.googleusercontent.com"

\* The constructor's default base_url.
base_url == << Site, "/view/", "reglement-flashback-fa", "/accueil", "?authuser=0" >>

\* The href attributes the home page's anchors may carry.
HrefPool ==
    { << "/view/", "reglement-flashback-fa", "/police" >>,
      << Site, "/view/", "reglement-flashback-fa", "/gang" >>,
      << Site, "/view/", "reglement-flashback-fa", "/accueil", "?authuser=0" >>,
      << Site, "/view/", "reglement-flashback-fa", "/accueil" >>,
      << Site, "/view/", "reglement-flashback-fa" >>,
      << "/view/", "reglement-flashback-fa", "/catalogue" >>,
      << "/view/", "reglement-flashback-fa", "/%63atalogue" >>,
      << "https://example.org", "/police" >>,
      << "/view/", "reglement-flashback-fa", "/police", "#top" >>,
      << "/view/", "reglement-flashback-fa", "/gang", "%23top" >>,
      << "#top" >>,
      << "?authuser=1" >> }

\* The markups of the home page: its set of anchors.
HomeMarkups == { A \in SUBSET HrefPool : Cardinality(A) <= MaxAnchors }

\* The page the server answers a request for url with: the query string and
\* the fragment do not select the page, and the site's root is its home page.
Serves(url) ==
    LET path == SplitFirst(SplitFirst(url, "#"), "?")
    IN  CASE path = << Site, "/view/", "reglement-flashback-fa", "/accueil" >> -> "home"
          [] path = << Site, "/view/", "reglement-flashback-fa" >>             -> "home"
          [] path = << Site, "/view/", "reglement-flashback-fa", "/police" >>  -> "police"
          [] path = << Site, "/view/", "reglement-flashback-fa", "/gang" >>    -> "gang"
          [] path = << Site, "/view/", "reglement-flashback-fa", "/catalogue" >>
                                                                              -> "catalogue"
          [] OTHER -> "absent"

\* The element tree of each page (anchors apart).
Doc(page) ==
    CASE page = "home" ->
            << Elem("div", "content", "", "", 0),
               Img("", 1, << Cdn, "/imgH" >>, << >>, << >>) >>
      [] page = "police" ->
            << Elem("div", "site-header", "", "", 0),
               Img("", 1, << "/pics", "/logo", ".png" >>, << >>, << >>),
               Elem("div", "content", "", "", 0),
               Img("", 3, << Cdn, "/imgA" >>, << >>, << >>),
               Img("", 3, << "/pics", "/wallpaper", ".jpg" >>, << >>, << >>) >>
      [] page = "gang" ->
            << Elem("div", "content", "", "", 0),
               Img("", 1, << Cdn, "/imgA", "?v=2" >>, << >>, << >>) >>
      [] page = "catalogue" ->
            << Elem("div", "content", "", "", 0),
               Img("", 1, << Cdn, "/imgB" >>, << >>, << >>) >>
      [] OTHER -> << >>

\* The payloads a media request may be answered with: bytes names the byte
\* string, len is its length, and decodes, width and height are what the
\* image decoder makes of it.
Payload(bytes, len, decodes, width, height) ==
    [ bytes |-> bytes, len |-> len, decodes |-> decodes,
      width |-> width, height |-> height ]

PayloadPool ==
    { Payload("bA", 50000, TRUE, 800, 600),
      Payload("bB", 60000, TRUE, 4000, 3000),
      Payload("bS", 500, TRUE, 50, 600),
      Payload("bL", 5000, TRUE, 5000, 4000),
      Payload("bX", 15 * 1024 * 1024 + 1, TRUE, 800, 600),
      Payload("bK", 3000, FALSE, 0, 0) }

\* hashlib.md5(content).hexdigest(), as the pair of its first 8 characters and
\* the other 24: different byte strings have different digests, and the
\* digests of bA and bB share their first 8 characters.
md5(bytes) ==
    CASE bytes = "bA" -> << "0a1b2c3d", "A" >>
      [] bytes = "bB" -> << "0a1b2c3d", "B" >>
      [] bytes = "bS" -> << "11111111", "S" >>
      [] bytes = "bL" -> << "22222222", "L" >>
      [] bytes = "bX" -> << "33333333", "X" >>
      [] bytes = "bK" -> << "44444444", "K" >>

\* ------------------------------------------------------------- the downloader

\* len(content) > 15 * 1024 * 1024
MaxBytes == 15728640
\* width < 100 or height < 100
MinDimension == 100
\* width > 4000 or height > 3000
MaxWidth == 4000
MaxHeight == 3000
\* len(content) < 1000, the test made when Pillow is missing
MinBytes == 1000

\* The ceiling written with a slip of the factor.
TooHeavyLoose(len) == len > 150 * 1024 * 1024

TooHeavy(len) == len > MaxBytes

\* A membership test that never finds the digest.
IsDuplicateNever(content_hash, hashes) == FALSE

IsDuplicate(content_hash, hashes) == content_hash \in hashes

\* The floor applied only when both dimensions are below it.
TooSmallBoth(width, height) == width < MinDimension /\ height < MinDimension

TooSmall(width, height) == width < MinDimension \/ height < MinDimension

\* A floor that rejects its own limit.
TooLightInclusive(len) == len <= MinBytes

\* len(content) < 1000
TooLight(len) == len < MinBytes

\* A ceiling that rejects its own limits.
TooLargeInclusive(width, height) == width >= MaxWidth \/ height >= MaxHeight

TooLarge(width, height) == width > MaxWidth \/ height > MaxHeight

(***************************************************************************)
(* What download_image decides about a status-200 body between reading it  *)
(* and opening the output file; no await lies in that stretch of code:     *)
(*   "heavy"      over the byte ceiling       (return False)               *)
(*   "duplicate"  digest already registered   (duplicates_removed += 1)    *)
(*   "decode"     Image.open raised           (return False)               *)
(*   "size"       dimension or byte-size gate (size_filtered += 1)         *)
(*   "write"      the digest is registered and the file is written         *)
(***************************************************************************)
Gate(p, hashes, pillow) ==
    IF TooHeavy(p.len) THEN "heavy"
    ELSE IF IsDuplicate(md5(p.bytes), hashes) THEN "duplicate"
    ELSE IF pillow
         THEN IF ~p.decodes THEN "decode"
              ELSE IF TooSmall(p.width, p.height) THEN "size"
              ELSE IF TooLarge(p.width, p.height) THEN "size"
              ELSE "write"
    ELSE IF TooLight(p.len) THEN "size"
    ELSE "write"

\* A decoder that is handed the body before the digest is looked up.
DecodedBeforeDigest(p, hashes, pillow) == ~TooHeavy(p.len) /\ pillow

\* Whether Image.open(io.BytesIO(content)) is reached: after the byte ceiling
\* and the membership test on the digest, when Pillow is there.
Decoded(p, hashes, pillow) ==
    /\ ~TooHeavy(p.len)
    /\ ~IsDuplicate(md5(p.bytes), hashes)
    /\ pillow

\* A download that forgets to register the digest it accepts.
RegisterLost(hashes, content_hash) == hashes

\* self.image_hashes.add(content_hash)
Register(hashes, content_hash) == hashes \cup {content_hash}

\* The counters of self.stats that download_image updates.
CountDuplicate(ss)    == [ss EXCEPT !.duplicates_removed = @ + 1]
CountSizeFiltered(ss) == [ss EXCEPT !.size_filtered = @ + 1]
CountSkipped(ss)      == [ss EXCEPT !.images_skipped = @ + 1]
CountDownloaded(ss)   == [ss EXCEPT !.images_downloaded = @ + 1]

\* self.stats after a body was rejected between its reading and the writing:
\* the duplicate and the two size rejections count, the ceiling and the decode
\* failure return False at once.
Counted(ss, g) ==
    IF g = "duplicate" THEN CountDuplicate(ss)
    ELSE IF g = "size" THEN CountSizeFiltered(ss)
    ELSE ss

\* os.path.basename(urlparse(image_url).path): the last path piece, with the
\* extension that follows it.
Basename(image_url) ==
    LET path == SplitFirst(SplitFirst(image_url, "#"), "?")
        n    == Len(path)
    IN  IF n <= 1 THEN << >>
        ELSE IF path[n] \in ImageExtTokens THEN << path[n-1], path[n] >>
        ELSE << path[n] >>

\* The output file's name: flashback_<basename>_<first 8 of the digest><ext>,
\* with .jpg for a basename without an image extension.
FileName(image_url, content_hash) ==
    LET b == Basename(image_url)
    IN  [ stem |-> IF b = << >> THEN "flashback_image_" ELSE b[1],
          h8   |-> content_hash[1],
          ext  |-> IF Len(b) = 2 THEN b[2] ELSE ".jpg" ]

\* ------------------------------------------------------------------ the state

VARIABLES
    max_concurrent,   \* self.max_concurrent
    HAS_PILLOW,       \* whether the import of PIL succeeded
    phase,            \* where crawl_flashback_site stands
    visited_urls,     \* self.visited_urls
    navbar_pages,     \* self.navbar_pages
    found_images,     \* self.found_images
    remaining_pages,  \* the local remaining_pages of phase 2
    page_tasks,       \* the fetch_page coroutines of the current await or batch
    semaphore,        \* free permits of self.semaphore
    stats,            \* the local stats dict that is returned
    self_stats,       \* self.stats
    image_hashes,     \* self.image_hashes
    files,            \* the output directory: a set of [name, bytes, complete]
    dl_tasks,         \* the download_with_semaphore coroutines of phase 3
    dl_semaphore,     \* free permits of phase 3's local semaphore
    requested,        \* history: the URLs fetch_page has requested
    requested_again,  \* history: the URLs fetch_page has requested more than once
    failed,           \* history: the URLs for which fetch_page returned None
    call,             \* a call of a pure method, alone: its arguments and its result
    pipeline          \* where main() of pipeline_flashback.py stands

vars == << max_concurrent, HAS_PILLOW, phase, visited_urls, navbar_pages,
           found_images, remaining_pages, page_tasks, semaphore, stats,
           self_stats, image_hashes, files, dl_tasks, dl_semaphore,
           requested, requested_again, failed, call, pipeline >>

NoTasks == [u \in {} |-> 0]

\* self.stats as the constructor leaves it.
self_stats0 ==
    [pages_crawled |-> 0, images_found |-> 0, images_downloaded |-> 0,
     images_skipped |-> 0, duplicates_removed |-> 0, size_filtered |-> 0]

\* A file left in the output directory by an earlier run.
StaleFile == [ name |-> [stem |-> "/old", h8 |-> "99999999", ext |-> ".jpg"],
               bytes |-> "bOld", complete |-> TRUE ]

\* No method is called alone during a run.
NoCall == [op |-> "none"]

Init ==
    /\ max_concurrent \in 1..MaxConcurrent
    /\ HAS_PILLOW \in BOOLEAN
    /\ phase = "Init"
    /\ visited_urls = {}
    /\ navbar_pages = {}
    /\ found_images = {}
    /\ remaining_pages = {}
    /\ page_tasks = NoTasks
    /\ semaphore = max_concurrent
    /\ stats = [pages_crawled |-> 0, images_found |-> 0, images_downloaded |-> 0]
    /\ self_stats = [pages_crawled |-> 0, images_found |-> 0, images_downloaded |-> 0,
                     images_skipped |-> 0, duplicates_removed |-> 0,
                     size_filtered |-> 0]
    /\ image_hashes = {}
    /\ files \in { {}, {StaleFile} }
    /\ dl_tasks = NoTasks
    /\ dl_semaphore = 0
    /\ requested = {}
    /\ requested_again = {}
    /\ failed = {}
    /\ call = NoCall
    /\ pipeline = "scraping"

\* ----------------------------------------------------------------- fetch_page

Waiting == [st |-> "waiting", ok |-> FALSE, page |-> "absent"]

\* What a page request may end in: a response (status and content type) or an
\* exception.
Response(raised, status, content_type) ==
    [ raised |-> raised, status |-> status, content_type |-> content_type ]

PageResponses ==
    { Response("none", 200, "text/html; charset=utf-8"),
      Response("none", 200, "Text/HTML; charset=UTF-8"),
      Response("none", 200, "application/xhtml+xml"),
      Response("none", 200, "application/json"),
      Response("none", 200, ""),
      Response("none", 404, "text/html; charset=utf-8"),
      Response("none", 500, ""),
      Response("TimeoutError", 0, ""),
      Response("ClientError", 0, ""),
      Response("ClientError", 200, "text/html; charset=utf-8") }

\* response.headers.get('content-type', '').lower()
lower(content_type) ==
    IF content_type = "Text/HTML; charset=UTF-8" THEN "text/html; charset=utf-8"
    ELSE content_type

\* 'text/html' in content_type
HasTextHtml(content_type) ==
    content_type \in { "text/html", "text/html; charset=utf-8" }

\* A fetch that takes any body of a status-200 response for a page.
FetchSucceedsAnyType(resp) == resp.raised = "none" /\ resp.status = 200

\* status == 200 and 'text/html' in content_type: fetch_page returns (url, content).
FetchSucceeds(resp) ==
    /\ resp.raised = "none"
    /\ resp.status = 200
    /\ HasTextHtml(lower(resp.content_type))

\* A release that happens only on the path that returns the page.
ReleasedOnSuccessOnly(resp) == IF FetchSucceeds(resp) THEN 1 ELSE 0

\* A release that is skipped when the request times out.
ReleasedExceptTimeout(resp) == IF resp.raised = "TimeoutError" THEN 0 ELSE 1

\* The permits handed back when the body of 'async with self.semaphore' is left.
ReleasedPermits(resp) == 1

\* An acquire that takes no permit.
AfterAcquireFree(permits) == permits

\* Semaphore.acquire: the free permits once one is taken.
AfterAcquire(permits) == permits - 1

\* 'async with self.semaphore', the sleep, and the GET being issued.
PageAcquire(u) ==
    /\ page_tasks[u].st = "waiting"
    /\ semaphore > 0
    /\ semaphore' = AfterAcquire(semaphore)
    /\ page_tasks' = [page_tasks EXCEPT ![u].st = "requesting"]
    /\ requested' = requested \cup {u}
    /\ requested_again' = IF u \in requested THEN requested_again \cup {u}
                          ELSE requested_again
    /\ UNCHANGED << pipeline, call, max_concurrent, HAS_PILLOW, phase, visited_urls, navbar_pages,
                    found_images, remaining_pages, stats, self_stats, image_hashes,
                    files, dl_tasks, dl_semaphore, failed >>

\* The request ends; fetch_page returns (url, content) or None.
PageRespond(u) ==
    /\ page_tasks[u].st = "requesting"
    /\ \E resp \in PageResponses :
          /\ (resp.raised = "none" /\ resp.status = 200) => Serves(u) # "absent"
          /\ page_tasks' = [page_tasks EXCEPT ![u] =
                 [st |-> "done", ok |-> FetchSucceeds(resp),
                  page |-> IF FetchSucceeds(resp) THEN Serves(u) ELSE "absent"]]
          /\ semaphore' = semaphore + ReleasedPermits(resp)
          /\ failed' = IF FetchSucceeds(resp) THEN failed ELSE failed \cup {u}
    /\ UNCHANGED << pipeline, call, max_concurrent, HAS_PILLOW, phase, visited_urls, navbar_pages,
                    found_images, remaining_pages, stats, self_stats, image_hashes,
                    files, dl_tasks, dl_semaphore, requested, requested_again >>

\* ------------------------------------------------------- crawl_flashback_site

\* cleanup_output_directory, then the call fetch_page(self.base_url).
StartRun ==
    /\ phase = "Init"
    /\ files' = {}
    /\ page_tasks' = [u \in {base_url} |-> Waiting]
    /\ phase' = "Discover"
    /\ UNCHANGED << pipeline, call, max_concurrent, HAS_PILLOW, visited_urls, navbar_pages,
                    found_images, remaining_pages, semaphore, stats, self_stats,
                    image_hashes, dl_tasks, dl_semaphore, requested, requested_again, failed >>

\* The home result handled without the test of its value.
HomeFetchedUnchecked(result) == TRUE

\* 'if home_result:'
HomeFetched(result) == result.ok

\* The home result is handled: the URL is marked visited and counted, the
\* navbar is read from the markup, and remaining_pages is computed.
\* A queue that keeps the pages already visited.
UnvisitedOrNot(navbar, visited) == navbar

\* self.navbar_pages - self.visited_urls
Unvisited(navbar, visited) == navbar \ visited

DiscoverDone ==
    /\ phase = "Discover"
    /\ page_tasks[base_url].st = "done"
    /\ \E hrefs \in HomeMarkups :
          LET got     == HomeFetched(page_tasks[base_url])
              visited == IF got THEN visited_urls \cup {base_url} ELSE visited_urls
              navbar  == IF got
                         THEN navbar_pages \cup extract_navbar_urls(hrefs, base_url, visited)
                         ELSE navbar_pages
          IN  /\ visited_urls' = visited
              /\ stats' = IF got THEN [stats EXCEPT !.pages_crawled = @ + 1] ELSE stats
              /\ navbar_pages' = navbar
              /\ remaining_pages' = Unvisited(navbar, visited)
    /\ page_tasks' = NoTasks
    /\ phase' = "CrawlNav"
    /\ UNCHANGED << pipeline, call, max_concurrent, HAS_PILLOW, found_images, semaphore, self_stats,
                    image_hashes, files, dl_tasks, dl_semaphore, requested,
                    requested_again, failed >>

Min(a, b) == IF a < b THEN a ELSE b
Max(a, b) == IF a < b THEN b ELSE a

\* list(remaining_pages)[:self.max_concurrent]: any max_concurrent of them.
Batches(remaining, n) ==
    { B \in SUBSET remaining : Cardinality(B) = Min(n, Cardinality(remaining)) }

\* A dispatch that leaves out one URL of the batch.
TasksButOne(current_batch) ==
    current_batch \ { CHOOSE u \in current_batch : TRUE }

\* tasks = [self.fetch_page(url) for url in current_batch]: the URLs dispatched.
Tasks(current_batch) == current_batch

\* One turn of 'while remaining_pages': a batch leaves remaining_pages and its
\* fetch_page coroutines are gathered.
TakeBatch ==
    /\ phase = "CrawlNav"
    /\ DOMAIN page_tasks = {}
    /\ remaining_pages # {}
    /\ \E current_batch \in Batches(remaining_pages, max_concurrent) :
          /\ remaining_pages' = remaining_pages \ current_batch
          /\ page_tasks' = [u \in Tasks(current_batch) |-> Waiting]
    /\ UNCHANGED << pipeline, call, max_concurrent, HAS_PILLOW, phase, visited_urls, navbar_pages,
                    found_images, semaphore, stats, self_stats, image_hashes, files,
                    dl_tasks, dl_semaphore, requested, requested_again, failed >>

\* self.base_url.split('?')[0].split('#')[0]
home_url_normalized == SplitFirst(SplitFirst(base_url, "?"), "#")

\* A guard that only knows the home URL as it was requested.
IsHomePageExact(url) == url = base_url

\* url_normalized == home_url_normalized or 'accueil' in url.lower()
IsHomePage(url) ==
    \/ SplitFirst(SplitFirst(url, "?"), "#") = home_url_normalized
    \/ Contains(url, "accueil", TRUE)

\* The images the loop over the results adds for one fetched page.
PageImages(url, page) ==
    IF IsHomePage(url) THEN {} ELSE extract_image_urls_from_html(Doc(page), url)

\* The URLs a run can request and the pages a request can return.
CrawlUrls == ({base_url} \cup { normalize_url(h, base_url) : h \in HrefPool }) \ {None}
PageNames == { "home", "police", "gang", "catalogue", "absent" }

\* PageImages of every request a run can make, each computed once.
PageImagesTable ==
    { << u, p, { x : x \in PageImages(u, p) } >> : u \in CrawlUrls, p \in PageNames }

PageImagesOf(url, page) ==
    (CHOOSE t \in PageImagesTable : t[1] = url /\ t[2] = page)[3]

\* A gather whose results are all lost when one fetch of the batch failed.
FetchedUnlessAnyFailed(tasks) ==
    IF \A u \in DOMAIN tasks : tasks[u].ok THEN DOMAIN tasks ELSE {}

\* The results of gather() that are tuples: 'if isinstance(result, tuple)'.
Fetched(tasks) == { u \in DOMAIN tasks : tasks[u].ok }

\* The anchors of a navigation page: the menu every page of the site carries.
PageLinks(page) ==
    IF page \in { "police", "gang", "catalogue" }
    THEN { << "/view/", "reglement-flashback-fa", "/police" >>,
           << Site, "/view/", "reglement-flashback-fa", "/gang" >> }
    ELSE {}

\* A loop over the results that scans each fetched page for navigation links.
NavRescanned(navbar, tasks, visited) ==
    navbar \cup UNION { extract_navbar_urls(PageLinks(tasks[u].page), u, visited) :
                          u \in Fetched(tasks) }

\* self.navbar_pages after the loop over the results: the loop has no statement
\* on it, whatever anchors the fetched pages carry.
NavAfterBatch(navbar, tasks, visited) == navbar

\* A loop that counts every result of the batch, None included.
PagesCountedAll(tasks) == Cardinality(DOMAIN tasks)

\* stats['pages_crawled'] += 1, once for each result that is a tuple.
PagesCounted(tasks) == Cardinality(Fetched(tasks))

\* gather() has returned: the loop over the results of the batch.
BatchDone ==
    /\ phase = "CrawlNav"
    /\ DOMAIN page_tasks # {}
    /\ \A u \in DOMAIN page_tasks : page_tasks[u].st = "done"
    /\ LET fetched == Fetched(page_tasks)
       IN  /\ visited_urls' = visited_urls \cup fetched
           /\ stats' = [stats EXCEPT !.pages_crawled = @ + PagesCounted(page_tasks)]
           /\ found_images' = found_images \cup
                 UNION { PageImagesOf(u, page_tasks[u].page) : u \in fetched }
           /\ navbar_pages' = NavAfterBatch(navbar_pages, page_tasks, visited_urls)
    /\ page_tasks' = NoTasks
    /\ UNCHANGED << pipeline, call, max_concurrent, HAS_PILLOW, phase, remaining_pages,
                    semaphore, self_stats, image_hashes, files, dl_tasks,
                    dl_semaphore, requested, requested_again, failed >>

DlWaiting == [st |-> "waiting", bytes |-> "", outcome |-> "", result |-> FALSE,
              decoded |-> FALSE]

\* A loop that may be left while pages remain.
LoopEndsAnytime(remaining) == TRUE

\* 'while remaining_pages' is left.
LoopEnds(remaining) == remaining = {}

\* A download limiter as wide as the page limiter.
DownloadPermitsFull(n) == n

\* asyncio.Semaphore(max(1, self.max_concurrent // 2))
DownloadPermits(n) == Max(1, n \div 2)

\* The loop has ended: images_found is set and phase 3 creates its semaphore and
\* one download coroutine per found image, or is skipped when there is none.
CrawlDone ==
    /\ phase = "CrawlNav"
    /\ DOMAIN page_tasks = {}
    /\ LoopEnds(remaining_pages)
    /\ stats' = [stats EXCEPT !.images_found = Cardinality(found_images)]
    /\ IF found_images # {}
       THEN /\ phase' = "FetchMedia"
            /\ dl_semaphore' = DownloadPermits(max_concurrent)
            /\ dl_tasks' = [u \in found_images |-> DlWaiting]
       ELSE /\ phase' = "Done"
            /\ UNCHANGED << dl_semaphore, dl_tasks >>
    /\ UNCHANGED << pipeline, call, max_concurrent, HAS_PILLOW, visited_urls, navbar_pages,
                    found_images, remaining_pages, page_tasks, semaphore, self_stats,
                    image_hashes, files, requested, requested_again, failed >>

\* ------------------------------------------------------------- download_image

\* What a media request may end in: an exception (timeout, transport error),
\* a status other than 200, or status 200 with one of the payloads.
MediaResponses ==
    { [kind |-> "exception", payload |-> Payload("", 0, FALSE, 0, 0)],
      [kind |-> "status404", payload |-> Payload("", 0, FALSE, 0, 0)] }
    \cup { [kind |-> "ok", payload |-> p] : p \in PayloadPool }

\* What opening and writing the output file may end in.
WriteResults == { "written", "open_failed", "write_failed" }

DlFinished(t, outcome, result) ==
    [t EXCEPT !.st = "done", !.outcome = outcome, !.result = result]

\* A download that does not look at its URL again.
RecheckedNever(image_url) == FALSE

\* 'if self.should_skip_image(image_url)': the check on the URL alone.
Rechecked(image_url) == should_skip_image(image_url, << >>)

\* 'async with semaphore', the sleep, the re-check of should_skip_image and the
\* GET being issued.
DlAcquire(u) ==
    /\ phase = "FetchMedia"
    /\ dl_tasks[u].st = "waiting"
    /\ dl_semaphore > 0
    /\ IF Rechecked(u)
       THEN /\ dl_tasks' = [dl_tasks EXCEPT ![u] = DlFinished(@, "noise", FALSE)]
            /\ UNCHANGED dl_semaphore
       ELSE /\ dl_tasks' = [dl_tasks EXCEPT ![u].st = "requesting"]
            /\ dl_semaphore' = dl_semaphore - 1
    /\ UNCHANGED << pipeline, call, max_concurrent, HAS_PILLOW, phase, visited_urls, navbar_pages,
                    found_images, remaining_pages, page_tasks, semaphore, stats,
                    self_stats, image_hashes, files, requested, requested_again, failed >>

\* The request ends and the body is read; the code up to the opening of the
\* output file runs without an await.
DlRespond(u) ==
    /\ phase = "FetchMedia"
    /\ dl_tasks[u].st = "requesting"
    /\ \E r \in MediaResponses :
          LET p == r.payload
              g == Gate(p, image_hashes, HAS_PILLOW)
              t == [dl_tasks[u] EXCEPT !.bytes = p.bytes]
              d == [t EXCEPT !.decoded = Decoded(p, image_hashes, HAS_PILLOW)]
          IN  IF r.kind = "exception"
              THEN /\ dl_tasks' = [dl_tasks EXCEPT ![u] = DlFinished(t, "error", FALSE)]
                   /\ self_stats' = CountSkipped(self_stats)
                   /\ dl_semaphore' = dl_semaphore + 1
                   /\ UNCHANGED image_hashes
              ELSE IF r.kind = "status404"
              THEN /\ dl_tasks' = [dl_tasks EXCEPT ![u] = DlFinished(t, "status", FALSE)]
                   /\ self_stats' = CountSkipped(self_stats)
                   /\ dl_semaphore' = dl_semaphore + 1
                   /\ UNCHANGED image_hashes
              ELSE IF g = "write"
              THEN /\ dl_tasks' = [dl_tasks EXCEPT ![u] = [d EXCEPT !.st = "writing"]]
                   /\ image_hashes' = Register(image_hashes, md5(p.bytes))
                   /\ UNCHANGED << self_stats, dl_semaphore >>
              ELSE /\ dl_tasks' = [dl_tasks EXCEPT ![u] = DlFinished(d, g, FALSE)]
                   /\ self_stats' = Counted(self_stats, g)
                   /\ dl_semaphore' = dl_semaphore + 1
                   /\ UNCHANGED image_hashes
    /\ UNCHANGED << pipeline, call, max_concurrent, HAS_PILLOW, phase, visited_urls, navbar_pages,
                    found_images, remaining_pages, page_tasks, semaphore, stats,
                    files, requested, requested_again, failed >>

\* The output directory after aiofiles.open(filepath, 'wb') and f.write(content):
\* a failed open leaves it as it was, a failed write leaves a truncated file.
Written(dir, name, bytes, w) ==
    IF w = "open_failed" THEN dir
    ELSE { f \in dir : f.name # name }
            \cup { [name |-> name, bytes |-> bytes, complete |-> (w = "written")] }

\* The write ends: images_downloaded is counted and True returned, or the
\* exception is caught, images_skipped counted and False returned.  The loop
\* over as_completed, which alone reads and writes the local stats, adds a True
\* result to stats['images_downloaded']; that statement is part of this step.
DlWriteDone(u) ==
    /\ phase = "FetchMedia"
    /\ dl_tasks[u].st = "writing"
    /\ \E w \in WriteResults :
          /\ files' = Written(files, FileName(u, md5(dl_tasks[u].bytes)),
                              dl_tasks[u].bytes, w)
          /\ IF w = "written"
             THEN /\ self_stats' = CountDownloaded(self_stats)
                  /\ dl_tasks' = [dl_tasks EXCEPT ![u] = DlFinished(@, "accepted", TRUE)]
                  /\ stats' = [stats EXCEPT !.images_downloaded = @ + 1]
             ELSE /\ self_stats' = CountSkipped(self_stats)
                  /\ dl_tasks' = [dl_tasks EXCEPT ![u] = DlFinished(@, "io_error", FALSE)]
                  /\ UNCHANGED stats
    /\ dl_semaphore' = dl_semaphore + 1
    /\ UNCHANGED << pipeline, call, max_concurrent, HAS_PILLOW, phase, visited_urls, navbar_pages,
                    found_images, remaining_pages, page_tasks, semaphore,
                    image_hashes, requested, requested_again, failed >>

\* A loop over the results that ends with the first result.
ExhaustedAtFirst(tasks) == \E u \in DOMAIN tasks : tasks[u].st = "done"

\* 'for task in tqdm.as_completed(tasks)' has awaited every task.
Exhausted(tasks) == \A u \in DOMAIN tasks : tasks[u].st = "done"

\* as_completed is exhausted: the report is logged and stats returned.
Finish ==
    /\ phase = "FetchMedia"
    /\ Exhausted(dl_tasks)
    /\ phase' = "Done"
    /\ UNCHANGED << pipeline, call, max_concurrent, HAS_PILLOW, visited_urls, navbar_pages,
                    found_images, remaining_pages, page_tasks, semaphore, stats,
                    self_stats, image_hashes, files, dl_tasks, dl_semaphore,
                    requested, requested_again, failed >>

\* ------------------------------------------------------- pipeline_flashback.py

\* run_scraper's value for the report s: return stats['images_downloaded'] > 0
ScrapingSuccess(s) == s.images_downloaded > 0

\* crawl_flashback_site has returned its report to run_scraper, which prints it
\* and returns; main() goes on to the extraction, or prints that the scraping
\* failed and returns.
ScraperReturns ==
    /\ phase = "Done"
    /\ pipeline = "scraping"
    /\ pipeline' = IF ScrapingSuccess(stats) THEN "extraction" ELSE "interrupted"
    /\ UNCHANGED << call, max_concurrent, HAS_PILLOW, phase, visited_urls, navbar_pages,
                    found_images, remaining_pages, page_tasks, semaphore, stats,
                    self_stats, image_hashes, files, dl_tasks, dl_semaphore,
                    requested, requested_again, failed >>

\* ---------------------------------------------------------- the specification

Next ==
    \/ StartRun
    \/ \E u \in DOMAIN page_tasks : PageAcquire(u)
    \/ \E u \in DOMAIN page_tasks : PageRespond(u)
    \/ DiscoverDone
    \/ TakeBatch
    \/ BatchDone
    \/ CrawlDone
    \/ \E u \in DOMAIN dl_tasks : DlAcquire(u)
    \/ \E u \in DOMAIN dl_tasks : DlRespond(u)
    \/ \E u \in DOMAIN dl_tasks : DlWriteDone(u)
    \/ Finish
    \/ ScraperReturns

Spec == Init /\ [][Next]_vars

\* Every request and every write ends, and a free permit is granted: some
\* enabled step of the event loop is eventually taken.
FairSpec == Spec /\ WF_vars(Next)

\* ------------------------------------------------- download_image, called alone

\* The URLs download_image is called with when a caller other than phase 2
\* supplies them: two images of the CDN and two URLs should_skip_image rejects.
MediaPool ==
    { << Cdn, "/imgA" >>,
      << Cdn, "/imgB" >>,
      << Site, "/pics", "/wallpaper", ".jpg" >>,
      << Cdn, "/wallpaper" >> }

\* Largest number of URLs handed to the downloads at once.
MaxDownloads == 2

\* A scraper just constructed whose downloads are started, as phase 3 starts
\* them, on a set of URLs of the caller's choice.
DownloadInit ==
    /\ max_concurrent \in 1..MaxConcurrent
    /\ HAS_PILLOW \in BOOLEAN
    /\ phase = "FetchMedia"
    /\ visited_urls = {}
    /\ navbar_pages = {}
    /\ found_images = {}
    /\ remaining_pages = {}
    /\ page_tasks = NoTasks
    /\ semaphore = max_concurrent
    /\ stats = [pages_crawled |-> 0, images_found |-> 0, images_downloaded |-> 0]
    /\ self_stats = [pages_crawled |-> 0, images_found |-> 0, images_downloaded |-> 0,
                     images_skipped |-> 0, duplicates_removed |-> 0,
                     size_filtered |-> 0]
    /\ image_hashes = {}
    /\ files = {}
    /\ \E U \in SUBSET MediaPool :
          /\ U # {}
          /\ Cardinality(U) <= MaxDownloads
          /\ dl_tasks = [u \in U |-> DlWaiting]
    /\ dl_semaphore = DownloadPermits(max_concurrent)
    /\ requested = {}
    /\ requested_again = {}
    /\ failed = {}
    /\ call = NoCall
    /\ pipeline = "scraping"

DownloadNext ==
    \/ \E u \in DOMAIN dl_tasks : DlAcquire(u)
    \/ \E u \in DOMAIN dl_tasks : DlRespond(u)
    \/ \E u \in DOMAIN dl_tasks : DlWriteDone(u)
    \/ Finish

DownloadSpec == DownloadInit /\ [][DownloadNext]_vars

\* ------------------------------------------------- the pure methods, called alone

\* Largest number of anchors of a markup handed to extract_navbar_urls alone.
MaxLinks == 3

program_vars ==
    << max_concurrent, HAS_PILLOW, phase, visited_urls, navbar_pages, found_images,
       remaining_pages, page_tasks, semaphore, stats, self_stats, image_hashes,
       files, dl_tasks, dl_semaphore, requested, requested_again, failed,
       pipeline >>

\* The references normalize_url is called with: the hrefs of the site, the empty
\* href, a malformed one, an upper-case one and a doubly encoded fragment.
RawPool ==
    HrefPool \cup
    { << >>,
      << "http://[" >>,
      << "/view/", "reglement-flashback-fa", "/Catalogue" >>,
      << "/view/", "reglement-flashback-fa", "/gang", "%2523top" >> }

\* The page URLs it is called with.
BasePool ==
    { base_url,
      << Site, "/view/", "reglement-flashback-fa" >>,
      << Site, "/view/", "reglement-flashback-fa", "/police" >> }

NormalizeCalls ==
    { [op |-> "normalize_url", url |-> r, base_url |-> b, st |-> "called",
       ret |-> None, again |-> None] : r \in RawPool, b \in BasePool }

\* The values of self.visited_urls extract_navbar_urls is called under.
VisitedPool ==
    { {}, {base_url},
      {base_url, << Site, "/view/", "reglement-flashback-fa", "/police" >>} }

NavbarCalls ==
    { [op |-> "extract_navbar_urls", hrefs |-> H, page_url |-> base_url,
       visited |-> V, st |-> "called", ret |-> {}] :
      H \in { A \in SUBSET RawPool : Cardinality(A) <= MaxLinks },
      V \in VisitedPool }

\* The widths, heights and lengths on either side of each limit of the gates.
WidthPool  == { 99, 100, 4000, 4001 }
HeightPool == { 99, 100, 3000, 3001 }
LenPool    == { 999, 1000, MaxBytes, MaxBytes + 1 }

\* The stretch of download_image between the reading of a body and the naming
\* of the file, entered with a body, with or without its digest registered and
\* with or without Pillow.
GateCalls ==
    { [op |-> "gates", payload |-> Payload("bA", n, d, w, h), hashes |-> H,
       pillow |-> b, st |-> "called", ret |-> "", ss |-> self_stats0] :
      n \in LenPool, d \in BOOLEAN, w \in WidthPool, h \in HeightPool,
      H \in { {}, { md5("bA") } }, b \in BOOLEAN }

\* The containers an img of a markup handed to extract_image_urls_from_html
\* alone may lie in: a div or a section, with or without a class or an id that
\* names a header, hero, banner or catalogue section.
RootPool ==
    { Elem(t, c, i, "", 0) :
        t \in { "div", "section" },
        c \in { "content", "hero", "banner", "site-header", "catalogue-grid" },
        i \in { "", "hero", "catalogue-grid" } }

\* The imgs of those markups: each of src, data-src and srcset absent or set,
\* to three different URLs.
ImgPool(parent) ==
    { Img("", parent, s, d, ss) :
        s  \in { << >>, << Cdn, "/imgA" >> },
        d  \in { << >>, << Cdn, "/imgB" >> },
        ss \in { << >>, << << Cdn, "/imgA", "?v=2" >> >> } }

\* The markups: the img directly in the container, or in a plain div inside it.
DocPool ==
    { << r, g >> : r \in RootPool, g \in ImgPool(1) }
    \cup { << r, Elem("div", "content", "", "", 1), g >> :
             r \in RootPool, g \in ImgPool(2) }

ExtractCalls ==
    { [op |-> "extract_image_urls_from_html", doc |-> d,
       page_url |-> << Site, "/view/", "reglement-flashback-fa", "/police" >>,
       st |-> "called", ret |-> {}] : d \in DocPool }

\* A fresh scraper, and one call about to be made.
PureInit ==
    /\ max_concurrent = 1
    /\ HAS_PILLOW = TRUE
    /\ phase = "Init"
    /\ visited_urls = {}
    /\ navbar_pages = {}
    /\ found_images = {}
    /\ remaining_pages = {}
    /\ page_tasks = NoTasks
    /\ semaphore = max_concurrent
    /\ stats = [pages_crawled |-> 0, images_found |-> 0, images_downloaded |-> 0]
    /\ self_stats = [pages_crawled |-> 0, images_found |-> 0, images_downloaded |-> 0,
                     images_skipped |-> 0, duplicates_removed |-> 0,
                     size_filtered |-> 0]
    /\ image_hashes = {}
    /\ files = {}
    /\ dl_tasks = NoTasks
    /\ dl_semaphore = 0
    /\ requested = {}
    /\ requested_again = {}
    /\ failed = {}
    /\ call \in NormalizeCalls \cup NavbarCalls \cup GateCalls \cup ExtractCalls
    /\ pipeline = "scraping"

\* normalize_url(url, base_url) returns.
CallNormalize ==
    /\ call.op = "normalize_url"
    /\ call.st = "called"
    /\ call' = [call EXCEPT !.st = "returned",
                            !.ret = normalize_url(call.url, call.base_url)]
    /\ UNCHANGED program_vars

\* normalize_url is called on the URL it returned.
CallNormalizeAgain ==
    /\ call.op = "normalize_url"
    /\ call.st = "returned"
    /\ call.ret # None
    /\ call' = [call EXCEPT !.st = "returned_again",
                            !.again = normalize_url(call.ret, call.base_url)]
    /\ UNCHANGED program_vars

\* extract_navbar_urls(html_content, page_url) returns, self.visited_urls being
\* call.visited.
CallExtractNavbar ==
    /\ call.op = "extract_navbar_urls"
    /\ call.st = "called"
    /\ call' = [call EXCEPT !.st = "returned",
                            !.ret = extract_navbar_urls(call.hrefs, call.page_url,
                                                        call.visited)]
    /\ UNCHANGED program_vars

\* The gates of download_image decide on the body.
CallGates ==
    /\ call.op = "gates"
    /\ call.st = "called"
    /\ LET g == Gate(call.payload, call.hashes, call.pillow)
       IN  call' = [call EXCEPT !.st = "returned", !.ret = g,
                                !.ss = Counted(call.ss, g)]
    /\ UNCHANGED program_vars

\* extract_image_urls_from_html(html_content, page_url) returns.
CallExtractImages ==
    /\ call.op = "extract_image_urls_from_html"
    /\ call.st = "called"
    /\ call' = [call EXCEPT !.st = "returned",
                            !.ret = extract_image_urls_from_html(call.doc,
                                                                 call.page_url)]
    /\ UNCHANGED program_vars

PureNext ==
    \/ CallNormalize
    \/ CallNormalizeAgain
    \/ CallExtractNavbar
    \/ CallGates
    \/ CallExtractImages

PureSpec == PureInit /\ [][PureNext]_vars

\* ------------------------------------------------------------------ the claims

\* The payload of the pool with the given bytes.
PayloadOf(bytes) == CHOOSE p \in PayloadPool : p.bytes = bytes

\* The downloads that were answered with status 200 and the bytes b.
Returned(b) == { u \in DOMAIN dl_tasks : dl_tasks[u].bytes = b }

\* The downloads that have passed the membership test on image_hashes.
PassedDigestTest(u) ==
    \/ dl_tasks[u].st = "writing"
    \/ dl_tasks[u].outcome \in { "accepted", "io_error" }

\* C1: under every interleaving of the downloads of phase 3, no two accepted
\* payloads have the same digest: of the downloads answered with identical
\* bytes, at most one passes the membership test on image_hashes and at most
\* one is accepted.
C1_AcceptedDigestsUnique ==
    \A u, v \in DOMAIN dl_tasks :
        (u # v /\ PassedDigestTest(u) /\ PassedDigestTest(v))
            => md5(dl_tasks[u].bytes) # md5(dl_tasks[v].bytes)

\* Two downloads answered with the same bytes: one is still writing its file
\* when the other is rejected as a duplicate.
C1_Witness ==
    \E u, v \in DOMAIN dl_tasks :
        /\ u # v
        /\ dl_tasks[u].bytes = dl_tasks[v].bytes
        /\ dl_tasks[u].st = "writing"
        /\ dl_tasks[v].outcome = "duplicate"

\* No download coroutine is between its start and its return.
NoDownloadInProgress ==
    \A u \in DOMAIN dl_tasks : dl_tasks[u].st \in { "waiting", "done" }

\* C2: a failed write leaves the payload's digest out of image_hashes, so
\* whenever no download is in progress every digest of image_hashes is the
\* digest of a payload that was persisted (a download that returned True).
C2_DigestsArePersisted ==
    NoDownloadInProgress =>
        \A d \in image_hashes :
            \E u \in DOMAIN dl_tasks :
                dl_tasks[u].outcome = "accepted" /\ md5(dl_tasks[u].bytes) = d

\* The image references of the home page's markup, as media extraction
\* normalizes them.
HomeMedia ==
    { normalize_image_url(AttrValue(Doc("home")[i], a), base_url) :
        i \in { k \in 1..Len(Doc("home")) : Doc("home")[k].tag = "img" },
        a \in { "src", "data-src", "data-lazy-src", "data-original", "srcset" } }
    \ { None }

\* C3: in every reachable state no media reference of the home page's markup
\* is in found_images, under whatever URL the home page's navigation links it.
C3_NoHomeMedia == found_images \cap HomeMedia = {}

\* C4: every outcome of a download increments exactly one counter, so at Done
\* images_found = images_downloaded + duplicates_removed + size_filtered
\*                + images_skipped.
C4_CountersAddUp ==
    phase = "Done" =>
        stats.images_found =
            stats.images_downloaded + self_stats.duplicates_removed
                + self_stats.size_filtered + self_stats.images_skipped

\* The bytes that pass the byte ceiling and the dimension (or byte-size) gate.
PassesGates(b) ==
    LET p == PayloadOf(b)
    IN  /\ p.len <= MaxBytes
        /\ IF HAS_PILLOW
           THEN /\ p.decodes
                /\ p.width >= MinDimension /\ p.height >= MinDimension
                /\ p.width <= MaxWidth /\ p.height <= MaxHeight
           ELSE p.len >= MinBytes

\* The downloads among K that ended with the given outcome.
Ended(K, outcome) == { u \in K : dl_tasks[u].outcome = outcome }

\* C5: when k >= 2 candidate URLs are answered with identical bytes that pass
\* the gates and no write fails, then at Done exactly one of them is accepted
\* and k - 1 are rejected as duplicates; when they are all the candidates,
\* images_downloaded = 1 and duplicates_removed = k - 1.
C5_IdenticalBytesOnce ==
    phase = "Done" =>
        \A p \in PayloadPool :
            LET K == Returned(p.bytes)
                k == Cardinality(K)
            IN  (k >= 2 /\ PassesGates(p.bytes) /\ Ended(K, "io_error") = {}) =>
                    /\ Cardinality(Ended(K, "accepted")) = 1
                    /\ Cardinality(Ended(K, "duplicate")) = k - 1
                    /\ K = DOMAIN dl_tasks =>
                          /\ stats.images_downloaded = 1
                          /\ self_stats.images_downloaded = 1
                          /\ self_stats.duplicates_removed = k - 1

\* Done, after two URLs that differ in their query string only were answered
\* with the same bytes: one download, one duplicate.
C5_Witness ==
    /\ phase = "Done"
    /\ Cardinality(Returned("bA")) >= 2
    /\ Returned("bA") = DOMAIN dl_tasks
    /\ stats.images_downloaded = 1
    /\ self_stats.duplicates_removed = Cardinality(Returned("bA")) - 1

\* A payload the decoder reads whose width or height is below the floor, or
\* whose width or height is above its ceiling.
OutOfDimensions(p) ==
    /\ p.decodes
    /\ \/ p.width < MinDimension \/ p.height < MinDimension
       \/ p.width > MaxWidth \/ p.height > MaxHeight

\* Download u reads, in this step, a body that reaches the decoder (status 200,
\* within the byte ceiling, Pillow present) and is out of dimensions.
ReadsOutOfDimensions(u) ==
    /\ HAS_PILLOW
    /\ dl_tasks[u].st = "requesting"
    /\ dl_tasks'[u].st # "requesting"
    /\ dl_tasks'[u].bytes \in { p.bytes : p \in PayloadPool }
    /\ PayloadOf(dl_tasks'[u].bytes).len <= MaxBytes
    /\ OutOfDimensions(PayloadOf(dl_tasks'[u].bytes))

\* No file of the output directory holds an out-of-dimensions payload.
NoOutOfDimensionsFile ==
    HAS_PILLOW =>
        \A f \in files :
            f.bytes \in { p.bytes : p \in PayloadPool }
                => ~OutOfDimensions(PayloadOf(f.bytes))

\* C6: a fetched payload whose decoded width or height is below the floor or
\* above the ceiling is rejected and never persisted: the download returns
\* False, nothing is written, image_hashes is unchanged, size_filtered grows
\* by exactly one and no other counter changes.
C6_DimensionRejection ==
    /\ []NoOutOfDimensionsFile
    /\ [][ \A u \in DOMAIN dl_tasks :
             ReadsOutOfDimensions(u) =>
                 /\ dl_tasks'[u].st = "done"
                 /\ dl_tasks'[u].result = FALSE
                 /\ files' = files
                 /\ image_hashes' = image_hashes
                 /\ self_stats' = [self_stats EXCEPT !.size_filtered = @ + 1]
                 /\ stats' = stats ]_vars

\* With Pillow, a download answered with the 50-pixel-wide payload and one
\* answered with the 5000x4000 payload have both been counted in size_filtered.
C6_Witness ==
    /\ HAS_PILLOW
    /\ \E u, v \in DOMAIN dl_tasks :
          /\ dl_tasks[u].bytes = "bS" /\ dl_tasks[u].outcome = "size"
          /\ dl_tasks[v].bytes = "bL" /\ dl_tasks[v].outcome = "size"
    /\ self_stats.size_filtered = 2
    /\ files = {}
    /\ image_hashes = {}

\* C7: a payload longer than 15 * 1024 * 1024 bytes is never written to the
\* output directory and its digest never enters image_hashes, also when it is
\* unique and its dimensions are within bounds.
C7_HeavyNeverPersisted ==
    \A p \in PayloadPool :
        p.len > 15 * 1024 * 1024 =>
            /\ md5(p.bytes) \notin image_hashes
            /\ \A f \in files : f.bytes # p.bytes
            /\ \A u \in Returned(p.bytes) : dl_tasks[u].st # "writing"

\* A download was answered with the payload of 15 MiB + 1 byte, which is
\* unique and 800x600, and has returned.
C7_Witness ==
    \E u \in DOMAIN dl_tasks :
        /\ dl_tasks[u].bytes = "bX"
        /\ dl_tasks[u].st = "done"
        /\ ~OutOfDimensions(PayloadOf("bX"))
        /\ md5("bX") \notin image_hashes

\* C8: when the fetch of the entry page fails (timeout, transport error,
\* non-200 status, non-HTML content type) the run goes on to Done with
\* pages_crawled = 0, images_found = 0 and images_downloaded = 0; no
\* navigation page is requested and no download is started.
C8_HomeFailureEndsEmpty ==
    /\ [](base_url \in failed =>
            /\ phase \in { "Discover", "CrawlNav", "Done" }
            /\ stats = [pages_crawled |-> 0, images_found |-> 0,
                        images_downloaded |-> 0]
            /\ visited_urls = {} /\ navbar_pages = {} /\ found_images = {}
            /\ requested = {base_url}
            /\ DOMAIN dl_tasks = {})
    /\ (base_url \in failed) ~> (phase = "Done")

\* The run is at Done after the fetch of the entry page failed.
C8_Witness == phase = "Done" /\ base_url \in failed

\* C9: for every max_concurrent >= 1, when every request and write ends and
\* permits are granted, every run reaches Done, whatever page and media
\* operations fail.
C9_RunReachesDone == <>(phase = "Done")

\* Done is reached by a degraded run: a navigation page failed, another one
\* was fetched, and a download failed.
C9_Witness ==
    /\ phase = "Done"
    /\ failed # {}
    /\ \E u \in DOMAIN dl_tasks :
          dl_tasks[u].outcome \in { "error", "status", "io_error" }

\* C10: in every reachable state every URL of navbar_pages satisfies the scope
\* filter is_flashback_url.
C10_NavbarInScope == \A u \in navbar_pages : is_flashback_url(u)

\* The home page was fetched and two navigation pages were found, one of them
\* through an href resolved against the page URL.
C10_Witness ==
    /\ base_url \in visited_urls
    /\ Cardinality(navbar_pages) >= 2
    /\ << Site, "/view/", "reglement-flashback-fa", "/police" >> \in navbar_pages

\* C11: normalize_url is idempotent: when normalize_url(raw, base) returns a URL
\* u, normalize_url(u, base) returns u again.
C11_NormalizeIdempotent ==
    (call.op = "normalize_url" /\ call.st = "returned_again")
        => call.again = call.ret

\* The resolved, fragment-stripped, percent-decoded URL of a reference.
Resolved(url, base) == unquote(SplitFirst(urljoin(base, url), "#"))

\* C19: normalize_url is total: for every reference and base it returns None or
\* a URL for which is_flashback_url holds, and it returns None whenever the
\* resolution raises or the resolved, stripped, decoded URL is out of scope.
C19_NormalizeTotal ==
    (call.op = "normalize_url" /\ call.st # "called") =>
        /\ call.ret = None \/ is_flashback_url(call.ret)
        /\ ( \/ urljoin(call.base_url, call.url) = ValueError
             \/ ~is_flashback_url(Resolved(call.url, call.base_url)) )
                => call.ret = None
        /\ ( /\ urljoin(call.base_url, call.url) # ValueError
             /\ is_flashback_url(Resolved(call.url, call.base_url)) )
                => call.ret = Resolved(call.url, call.base_url)

\* normalize_url has returned None for the reference urljoin raises on.
C19_Witness ==
    /\ call.op = "normalize_url"
    /\ call.st = "returned"
    /\ call.url = << "http://[" >>
    /\ urljoin(call.base_url, call.url) = ValueError
    /\ call.ret = None

\* C12: the deny-list comes first: every URL extract_navbar_urls returns is the
\* normalization of an href without 'catalogue', so an href with 'catalogue'
\* never causes an insertion, also when it holds an allow-listed keyword; for
\* the links /police, /gang and /catalogue the result is the two first pages.
C12_DenyListFirst ==
    (call.op = "extract_navbar_urls" /\ call.st = "returned") =>
        /\ \A u \in call.ret :
              \E h \in call.hrefs :
                 /\ ~Contains(h, "catalogue", TRUE)
                 /\ normalize_url(h, call.page_url) = u
        /\ ( /\ call.hrefs = { << "/view/", "reglement-flashback-fa", "/police" >>,
                               << Site, "/view/", "reglement-flashback-fa", "/gang" >>,
                               << "/view/", "reglement-flashback-fa", "/catalogue" >> }
             /\ call.visited = {base_url} )
            => call.ret = { << Site, "/view/", "reglement-flashback-fa", "/police" >>,
                            << Site, "/view/", "reglement-flashback-fa", "/gang" >> }

\* extract_navbar_urls has returned for a markup whose three links are /police,
\* /gang and /catalogue, the last one holding the allow-listed 'reglement'.
C12_Witness ==
    /\ call.op = "extract_navbar_urls"
    /\ call.st = "returned"
    /\ call.hrefs = { << "/view/", "reglement-flashback-fa", "/police" >>,
                      << Site, "/view/", "reglement-flashback-fa", "/gang" >>,
                      << "/view/", "reglement-flashback-fa", "/catalogue" >> }
    /\ \E kw \in nav_keywords :
          Contains(<< "/view/", "reglement-flashback-fa", "/catalogue" >>, kw, TRUE)
    /\ Cardinality(call.ret) = 2

\* The page fetches that hold a permit: past the acquire, not yet returned.
PermitHolders == { u \in DOMAIN page_tasks : page_tasks[u].st = "requesting" }

\* C13: in every reachable state the page requests that hold a permit of
\* self.semaphore are at most max_concurrent; each holds one of the
\* max_concurrent permits and the free permits are never negative.
C13_HoldersBounded ==
    /\ Cardinality(PermitHolders) <= max_concurrent
    /\ semaphore >= 0
    /\ semaphore = max_concurrent - Cardinality(PermitHolders)

\* Two page requests are in flight under max_concurrent = 2: no permit is free.
C13_Witness ==
    /\ max_concurrent = 2
    /\ Cardinality(PermitHolders) = 2
    /\ semaphore = 0

\* C14: fetch_page hands its permit back on every exit path: whenever no page
\* fetch is in progress the free permits equal max_concurrent.
C14_PermitsRestored ==
    PermitHolders = {} => semaphore = max_concurrent

\* Between two batches, after a fetch that timed out or failed: every permit
\* is free and pages remain to be fetched.
C14_Witness ==
    /\ phase = "CrawlNav"
    /\ DOMAIN page_tasks = {}
    /\ failed # {}
    /\ base_url \notin failed
    /\ remaining_pages # {}
    /\ semaphore = max_concurrent

\* The step in which the gather of a batch of phase 2 has returned and its
\* results are handled.
BatchReturns ==
    /\ phase = "CrawlNav"
    /\ DOMAIN page_tasks # {}
    /\ DOMAIN page_tasks' = {}

\* C15: a failed fetch is a value, not an exception: when a batch returns,
\* every page of it that was fetched is marked visited, counted in
\* pages_crawled and handed to the media extraction, whatever fetches of the
\* batch failed; the run stays in phase 2 and the next batch can be taken.
C15_FailureIsolated ==
    /\ [][ BatchReturns =>
             LET ok == { u \in DOMAIN page_tasks :
                           page_tasks[u].st = "done" /\ u \notin failed }
             IN  /\ visited_urls' = visited_urls \cup ok
                 /\ stats'.pages_crawled = stats.pages_crawled + Cardinality(ok)
                 /\ found_images' = found_images \cup
                        UNION { PageImagesOf(u, Serves(u)) : u \in ok }
                 /\ phase' = "CrawlNav"
                 /\ remaining_pages' = remaining_pages ]_vars
    /\ []( ( /\ phase = "CrawlNav"
             /\ DOMAIN page_tasks = {}
             /\ remaining_pages # {} ) => ENABLED TakeBatch )

\* A batch of two pages has returned: the fetch of one failed, the other one
\* is visited and counted and its images are found.
C15_Witness ==
    /\ phase = "CrawlNav"
    /\ DOMAIN page_tasks = {}
    /\ max_concurrent >= 2
    /\ stats.pages_crawled = 2
    /\ \E u, v \in navbar_pages :
          /\ u \in failed
          /\ v \in visited_urls \ {base_url}
          /\ PageImagesOf(v, Serves(v)) # {}
          /\ PageImagesOf(v, Serves(v)) \subseteq found_images

\* The place of a phase in the order Init, Discover, CrawlNav, FetchMedia, Done.
Rank(p) ==
    CASE p = "Init"       -> 0
      [] p = "Discover"   -> 1
      [] p = "CrawlNav"   -> 2
      [] p = "FetchMedia" -> 3
      [] p = "Done"       -> 4

\* C16: a run goes through Init, Discover, CrawlNav, FetchMedia, Done in this
\* order and never back (FetchMedia is passed over when no image was found);
\* no navigation page is requested before the home fetch has returned, no
\* download exists before every batch of phase 2 has completed, and
\* found_images does not change once the downloads are dispatched.
C16_PhaseOrder ==
    /\ [][ phase' # phase =>
             \/ Rank(phase') = Rank(phase) + 1
             \/ phase = "CrawlNav" /\ phase' = "Done" /\ found_images = {} ]_vars
    /\ []( phase \in { "Init", "Discover" } =>
             /\ requested \subseteq {base_url}
             /\ DOMAIN page_tasks \subseteq {base_url}
             /\ navbar_pages = {} /\ DOMAIN dl_tasks = {} )
    /\ []( DOMAIN dl_tasks # {} =>
             /\ phase \in { "FetchMedia", "Done" }
             /\ DOMAIN page_tasks = {}
             /\ remaining_pages = {}
             /\ DOMAIN dl_tasks = found_images )
    /\ [][ (phase \in { "FetchMedia", "Done" }) => found_images' = found_images ]_vars

\* A run is at Done after a navigation page was fetched and a download ended.
C16_Witness ==
    /\ phase = "Done"
    /\ visited_urls \ {base_url} # {}
    /\ \E u \in DOMAIN dl_tasks : dl_tasks[u].st = "done"

\* C17: within a run fetch_page requests no URL twice and a URL enters
\* visited_urls at most once: a visited URL is never dispatched nor queued, a
\* dispatched URL is not in the queue any more, and a URL whose fetch failed
\* is neither queued nor dispatched again.
C17_FetchedOnce ==
    /\ requested_again = {}
    /\ stats.pages_crawled = Cardinality(visited_urls)
    /\ visited_urls \cap (DOMAIN page_tasks \cup remaining_pages) = {}
    /\ DOMAIN page_tasks \cap remaining_pages = {}
    /\ \A u \in failed :
          /\ u \notin remaining_pages
          /\ u \notin visited_urls
          /\ u \in DOMAIN page_tasks => page_tasks[u].st = "done"

\* A run has ended in which the home page links to itself and the fetch of a
\* navigation page failed: either URL was requested once.
C17_Witness ==
    /\ phase = "Done"
    /\ base_url \in navbar_pages
    /\ base_url \in visited_urls
    /\ failed # {}
    /\ requested = {base_url} \cup failed

\* C18, as stated: when phase 2 hands over to the downloads, every URL of
\* navbar_pages is in visited_urls.
C18_AllVisitedAtHandover ==
    phase = "FetchMedia" => navbar_pages \subseteq visited_urls

\* C18, amended: when phase 2 hands over to the downloads the queue is empty
\* and every URL of navbar_pages was requested; it is in visited_urls when its
\* fetch returned the page, and is left out of it when its fetch failed.
C18_AllTriedAtHandover ==
    phase = "FetchMedia" =>
        /\ remaining_pages = {}
        /\ navbar_pages \subseteq requested
        /\ navbar_pages \cap failed = navbar_pages \ visited_urls

\* The downloads are dispatched after the fetch of a navigation page failed:
\* that page is not in visited_urls.
C18_Witness ==
    /\ phase = "FetchMedia"
    /\ navbar_pages \cap failed # {}
    /\ ~(navbar_pages \subseteq visited_urls)

\* C20: phase 3 holds one download per URL that found_images has when the
\* phase starts and none for another URL; a download that has returned is not
\* run again; when the run is Done every download has returned its outcome.
C20_DownloadedOnce ==
    /\ [](phase \in { "FetchMedia", "Done" } => DOMAIN dl_tasks = found_images)
    /\ [](phase = "Done" =>
            \A u \in DOMAIN dl_tasks :
                /\ dl_tasks[u].st = "done"
                /\ dl_tasks[u].outcome # ""
                /\ dl_tasks[u].result = (dl_tasks[u].outcome = "accepted"))
    /\ [][ /\ (phase = "FetchMedia") => DOMAIN dl_tasks' = DOMAIN dl_tasks
           /\ \A u \in DOMAIN dl_tasks :
                 dl_tasks[u].st = "done" =>
                     u \in DOMAIN dl_tasks' /\ dl_tasks'[u] = dl_tasks[u]
           /\ \A u \in DOMAIN dl_tasks :
                 (u \in DOMAIN dl_tasks' /\ dl_tasks[u].st # "waiting") =>
                     dl_tasks'[u].st # "waiting" ]_vars

\* The run is Done after two downloads, one of them accepted and one not.
C20_Witness ==
    /\ phase = "Done"
    /\ \E u, v \in DOMAIN dl_tasks :
          /\ u # v
          /\ dl_tasks[u].outcome = "accepted"
          /\ dl_tasks[v].outcome \notin { "", "accepted" }

\* The downloads that hold a permit of phase 3's semaphore.
DownloadHolders ==
    { u \in DOMAIN dl_tasks : dl_tasks[u].st \in { "requesting", "writing" } }

\* C21: in the fetch phase at most max(1, max_concurrent // 2) downloads are
\* between acquiring and releasing the download permit, the free download
\* permits are the rest, and no step of the phase takes or gives back a permit
\* of the page semaphore, which stays full.
C21_DownloadsBounded ==
    /\ [](phase = "FetchMedia" =>
            /\ Cardinality(DownloadHolders) <= Max(1, max_concurrent \div 2)
            /\ dl_semaphore =
                  Max(1, max_concurrent \div 2) - Cardinality(DownloadHolders)
            /\ semaphore = max_concurrent)
    /\ [][ (phase = "FetchMedia") => semaphore' = semaphore ]_vars
    /\ [][ (dl_semaphore' # dl_semaphore) => (phase = "FetchMedia" \/ phase' = "FetchMedia") ]_vars

\* With max_concurrent = 2 one download holds the only permit while another
\* one waits for it.
C21_Witness ==
    /\ phase = "FetchMedia"
    /\ max_concurrent = 2
    /\ Cardinality(DownloadHolders) = 1
    /\ dl_semaphore = 0
    /\ \E u \in DOMAIN dl_tasks : dl_tasks[u].st = "waiting"

\* C22: during phase 2 no URL is both in visited_urls and in remaining_pages,
\* the navigation URLs still to be dispatched.
C22_VisitedNotPending ==
    phase = "CrawlNav" => visited_urls \cap remaining_pages = {}

\* A navigation page has been visited while another one is still pending.
C22_Witness ==
    /\ phase = "CrawlNav"
    /\ remaining_pages # {}
    /\ (visited_urls \cap navbar_pages) \ {base_url} # {}

\* C23: navbar_pages is empty until the home page is handled, is set by that one
\* step, and no later step adds a URL to it or removes one, whatever anchors
\* the crawled pages carry.
C23_NavbarFrozen ==
    /\ [](phase \in { "Init", "Discover" } => navbar_pages = {})
    /\ [][ (phase \notin { "Init", "Discover" }) => navbar_pages' = navbar_pages ]_vars
    /\ [][ (navbar_pages' # navbar_pages) =>
              (phase = "Discover" /\ phase' = "CrawlNav") ]_vars

\* A page whose menu links to a page the home page did not link to has been
\* crawled, and that page is not in navbar_pages.
C23_Witness ==
    /\ phase \in { "CrawlNav", "FetchMedia", "Done" }
    /\ \E u \in visited_urls \ {base_url} :
          \E h \in PageLinks(Serves(u)) :
              /\ normalize_url(h, u) # None
              /\ normalize_url(h, u) \notin navbar_pages

\* Download u reads, in this step, a status-200 body.
ReadsBody(u) ==
    /\ dl_tasks[u].st = "requesting"
    /\ dl_tasks'[u].st # "requesting"
    /\ dl_tasks'[u].bytes # ""

\* C24: image_hashes only grows, and a download that reads a body whose digest
\* is already in image_hashes returns False as a duplicate, whatever its URL:
\* duplicates_removed goes up by one, no other counter moves, and neither
\* image_hashes nor the output directory changes.
C24_DigestExcludes ==
    /\ [][ image_hashes \subseteq image_hashes' ]_vars
    /\ [][ \A u \in DOMAIN dl_tasks :
              (ReadsBody(u) /\ md5(dl_tasks'[u].bytes) \in image_hashes) =>
                  /\ dl_tasks'[u].st = "done"
                  /\ dl_tasks'[u].outcome = "duplicate"
                  /\ dl_tasks'[u].result = FALSE
                  /\ self_stats' = CountDuplicate(self_stats)
                  /\ image_hashes' = image_hashes
                  /\ files' = files
                  /\ stats' = stats ]_vars

\* A download was rejected as a duplicate of the bytes another URL had been
\* answered with.
C24_Witness ==
    \E u, v \in DOMAIN dl_tasks :
        /\ u # v
        /\ dl_tasks[u].outcome = "duplicate"
        /\ dl_tasks[v].bytes = dl_tasks[u].bytes
        /\ PassedDigestTest(v)
        /\ md5(dl_tasks[u].bytes) \in image_hashes
        /\ self_stats.duplicates_removed = 1

\* C25: the membership test on the digest comes before the decoding: a download
\* that reads a body whose digest is already in image_hashes returns as a
\* duplicate without Image.open having been called on the body.
C25_DigestBeforeDecode ==
    /\ [](\A u \in DOMAIN dl_tasks :
            dl_tasks[u].outcome = "duplicate" => ~dl_tasks[u].decoded)
    /\ [][ \A u \in DOMAIN dl_tasks :
              (ReadsBody(u) /\ md5(dl_tasks'[u].bytes) \in image_hashes) =>
                  ~dl_tasks'[u].decoded ]_vars

\* With Pillow, a body was decoded and accepted, and the same bytes, read for
\* another URL, were rejected as a duplicate without being decoded.
C25_Witness ==
    /\ HAS_PILLOW
    /\ \E u, v \in DOMAIN dl_tasks :
          /\ u # v
          /\ dl_tasks[v].decoded
          /\ dl_tasks[v].outcome = "accepted"
          /\ dl_tasks[u].bytes = dl_tasks[v].bytes
          /\ dl_tasks[u].outcome = "duplicate"
          /\ ~dl_tasks[u].decoded

\* C26: download_image looks at its URL first: for a URL should_skip_image
\* rejects it returns False without a request being issued, without a body
\* being read, and without a change to the output directory or to
\* image_hashes.
C26_NoiseRejectedFirst ==
    /\ [](\A u \in DOMAIN dl_tasks :
            should_skip_image(u, << >>) =>
                /\ dl_tasks[u].st \in { "waiting", "done" }
                /\ dl_tasks[u].bytes = ""
                /\ dl_tasks[u].st = "done" =>
                      dl_tasks[u].outcome = "noise" /\ dl_tasks[u].result = FALSE)
    /\ [][ \A u \in DOMAIN dl_tasks :
              (should_skip_image(u, << >>) /\ dl_tasks'[u] # dl_tasks[u]) =>
                  /\ files' = files
                  /\ image_hashes' = image_hashes ]_vars

\* A wallpaper URL was rejected unrequested after the other URL had been
\* downloaded and saved.
C26_Witness ==
    \E u, v \in DOMAIN dl_tasks :
        /\ should_skip_image(u, << >>)
        /\ dl_tasks[u].outcome = "noise"
        /\ dl_tasks[v].outcome = "accepted"
        /\ image_hashes # {}
        /\ files # {}

\* The gates were entered with a body that is within the byte ceiling and whose
\* digest is not registered.
GatesReturnedUnique ==
    /\ call.op = "gates"
    /\ call.st = "returned"
    /\ call.payload.len <= 15 * 1024 * 1024
    /\ call.hashes = {}

\* C27: with Pillow, a decoded unique body within the byte ceiling passes the
\* dimension gate exactly when 100 <= width <= 4000 and 100 <= height <= 3000,
\* the limits included, and is a size rejection otherwise.
C27_DimensionLimits ==
    (GatesReturnedUnique /\ call.pillow /\ call.payload.decodes) =>
        LET w == call.payload.width
            h == call.payload.height
        IN  IF 100 <= w /\ w <= 4000 /\ 100 <= h /\ h <= 3000
            THEN call.ret = "write"
            ELSE call.ret = "size"

\* A body of 4000 by 3000 pixels passed the gate.
C27_Witness ==
    /\ GatesReturnedUnique /\ call.pillow /\ call.payload.decodes
    /\ call.payload.width = 4000
    /\ call.payload.height = 3000
    /\ call.ret = "write"

\* C28: without Pillow the byte size stands in for the dimensions: a unique
\* body of fewer than 1000 bytes is rejected and counted in size_filtered, and
\* a unique body of 1000 bytes up to the byte ceiling passes, whatever a
\* decoder would have made of it.
C28_ByteSizeFallback ==
    (GatesReturnedUnique /\ ~call.pillow) =>
        IF call.payload.len < 1000
        THEN /\ call.ret = "size"
             /\ call.ss = [self_stats0 EXCEPT !.size_filtered = 1]
        ELSE /\ call.ret = "write"
             /\ call.ss = self_stats0

\* Without Pillow a body of exactly 1000 bytes that is no image passed.
C28_Witness ==
    /\ GatesReturnedUnique /\ ~call.pillow
    /\ call.payload.len = 1000
    /\ ~call.payload.decodes
    /\ call.ret = "write"

\* The rejections self.stats has counted.
RejectionsCounted(ss) ==
    ss.images_skipped + ss.duplicates_removed + ss.size_filtered

\* C29: a download that reads a body the decoder fails on is rejected and
\* counted: it returns False, the output directory and image_hashes stay as
\* they are, and one rejection counter of self.stats goes up by one.
C29_DecodeFailureCounted ==
    [][ \A u \in DOMAIN dl_tasks :
          (ReadsBody(u) /\ dl_tasks'[u].outcome = "decode") =>
              /\ dl_tasks'[u].result = FALSE
              /\ files' = files
              /\ image_hashes' = image_hashes
              /\ RejectionsCounted(self_stats') = RejectionsCounted(self_stats) + 1
      ]_vars

\* C30: fetch_page returns (url, body) exactly for a response of status 200
\* whose content type holds text/html, in whatever case; for every other
\* response, and when the request raises, it returns None, and a URL for which
\* it returned None is not put in visited_urls and not counted in
\* pages_crawled.
C30_PageFetchSuccess ==
    /\ [](\A resp \in PageResponses :
            FetchSucceeds(resp) <=>
                /\ resp.raised = "none"
                /\ resp.status = 200
                /\ resp.content_type \in { "text/html; charset=utf-8",
                                            "Text/HTML; charset=UTF-8" })
    /\ [](visited_urls \cap failed = {})
    /\ [](visited_urls \subseteq requested \ failed)
    /\ [](stats.pages_crawled = Cardinality(visited_urls))
    /\ [][ \A u \in DOMAIN page_tasks :
              (page_tasks[u].st = "requesting" /\ page_tasks'[u].st = "done") =>
                  /\ page_tasks'[u].ok <=> u \notin failed'
                  /\ visited_urls' = visited_urls
                  /\ stats' = stats ]_vars
    /\ [][ visited_urls' \ visited_urls \subseteq
              { u \in DOMAIN page_tasks : page_tasks[u].st = "done" /\ page_tasks[u].ok }
         ]_vars

\* The run is Done: one navigation page was fetched and another one was not;
\* only the home page and the fetched page are visited and counted.
C30_Witness ==
    /\ phase = "Done"
    /\ failed \cap navbar_pages # {}
    /\ (visited_urls \cap navbar_pages) \ {base_url} # {}
    /\ stats.pages_crawled = 2
    /\ Cardinality(requested) = 3

\* The img elements of a markup.
Imgs(doc) == { i \in 1..Len(doc) : doc[i].tag = "img" }

\* The value of the first non-empty source attribute of an img, in the order
\* src, data-src, data-lazy-src, data-original, srcset.
FirstSource(n) ==
    IF n.src # << >> THEN n.src
    ELSE IF n.data_src # << >> THEN n.data_src
    ELSE IF n.data_lazy_src # << >> THEN n.data_lazy_src
    ELSE IF n.data_original # << >> THEN n.data_original
    ELSE AttrValue(n, "srcset")

\* C31: media extraction uses, of each img, only the first non-empty source
\* attribute: every URL it returns is the normalized value of the first
\* non-empty attribute of an img, so an img contributes at most one URL.
C31_FirstSourceWins ==
    (call.op = "extract_image_urls_from_html" /\ call.st = "returned") =>
        /\ \A x \in call.ret :
              \E i \in Imgs(call.doc) :
                  x = normalize_image_url(FirstSource(call.doc[i]), call.page_url)
        /\ Cardinality(call.ret) <= Cardinality(Imgs(call.doc))

\* An element named, by its class or by its id, as a header, hero, banner or
\* catalogue section.
SectionRoot(n) ==
    \E p \in { "header", "hero", "banner", "catalogue" } :
        Contains(<< n.class >>, p, TRUE) \/ Contains(<< n.id >>, p, TRUE)

\* C32: no URL returned by media extraction comes from an img that lies below
\* an element named by class or id as a header, hero, banner or catalogue
\* section.
C32_SectionsRemoved ==
    (call.op = "extract_image_urls_from_html" /\ call.st = "returned") =>
        \A x \in call.ret :
            \E i \in Imgs(call.doc) :
                /\ \E a \in { "src", "data-src", "data-lazy-src", "data-original",
                               "srcset" } :
                      /\ AttrValue(call.doc[i], a) # << >>
                      /\ x = normalize_image_url(AttrValue(call.doc[i], a),
                                                 call.page_url)
                /\ \A a \in Range(Ancestors(call.doc, i)) :
                      ~SectionRoot(call.doc[a])

\* C33: navigation extraction returns no URL that is in visited_urls when it is
\* called.
C33_NavbarUnvisited ==
    (call.op = "extract_navbar_urls" /\ call.st = "returned") =>
        call.ret \cap call.visited = {}

\* gather() has returned and the loop over its results runs in this step.
BatchHandled ==
    /\ phase = "CrawlNav"
    /\ DOMAIN page_tasks # {}
    /\ page_tasks' = NoTasks

\* The URL is the home URL up to its query and fragment, or holds 'accueil'.
LooksLikeHome(url) ==
    \/ SplitFirst(SplitFirst(url, "?"), "#")
          = << Site, "/view/", "reglement-flashback-fa", "/accueil" >>
    \/ \E i \in 1..Len(url) : url[i] \in { "/accueil", "/Accueil" }

\* C34: in phase 2 every fetched page is marked visited and counted; a fetched
\* page whose URL looks like the home URL adds nothing to found_images, and
\* every other fetched page adds the images extracted from it.
C34_HomeGuard ==
    [][ BatchHandled =>
          LET fetched == { u \in DOMAIN page_tasks : page_tasks[u].ok }
          IN  /\ visited_urls' = visited_urls \cup fetched
              /\ stats'.pages_crawled = stats.pages_crawled + Cardinality(fetched)
              /\ found_images' = found_images \cup
                    UNION { extract_image_urls_from_html(Doc(page_tasks[u].page), u) :
                            u \in { v \in fetched : ~LooksLikeHome(v) } } ]_vars

\* The home page was fetched again under its URL without the query string, and
\* another page gave images: three pages are counted and no image of the home
\* page was found.
C34_Witness ==
    /\ phase \in { "FetchMedia", "Done" }
    /\ << Site, "/view/", "reglement-flashback-fa", "/accueil" >> \in visited_urls
    /\ stats.pages_crawled = 3
    /\ found_images # {}
    /\ found_images \cap HomeMedia = {}

\* C35: a run that found or downloaded no media is not a failure of the
\* scraping step: once run_scraper has returned, main() is not interrupted
\* with the message that the scraping failed.
C35_ZeroMediaNotFailure ==
    (phase = "Done" /\ stats.images_downloaded = 0) => pipeline # "interrupted"

\* C36: whenever no batch is being processed pages_crawled is the number of
\* URLs in visited_urls, and every step adds to pages_crawled exactly the
\* number of URLs it newly puts in visited_urls, which never loses a URL.
C36_CounterFollowsVisited ==
    /\ [](DOMAIN page_tasks = {} => stats.pages_crawled = Cardinality(visited_urls))
    /\ [][ /\ visited_urls \subseteq visited_urls'
           /\ stats'.pages_crawled =
                 stats.pages_crawled + Cardinality(visited_urls' \ visited_urls) ]_vars

\* After the last batch: the home page and one navigation page are visited and
\* counted, and the fetch that failed is not.
C36_Witness ==
    /\ phase = "CrawlNav"
    /\ DOMAIN page_tasks = {}
    /\ remaining_pages = {}
    /\ failed # {}
    /\ stats.pages_crawled = 2
    /\ Cardinality(visited_urls) = 2

\* C37: at Done the images_downloaded of the returned report is the
\* downloader's own images_downloaded, and images_downloaded <= the number of
\* digests in image_hashes <= images_found = the number of URLs in found_images.
C37_ReportChain ==
    phase = "Done" =>
        /\ stats.images_downloaded = self_stats.images_downloaded
        /\ stats.images_downloaded <= Cardinality(image_hashes)
        /\ Cardinality(image_hashes) <= stats.images_found
        /\ stats.images_found = Cardinality(found_images)

\* Done after two downloads of different bytes, one saved and one whose write
\* failed: one image downloaded, two digests, two images found.
C37_Witness ==
    /\ phase = "Done"
    /\ stats.images_downloaded = 1
    /\ Cardinality(image_hashes) = 2
    /\ stats.images_found = 2

\* The downloads that returned True.
Accepted == { u \in DOMAIN dl_tasks : dl_tasks[u].outcome = "accepted" }

\* C38: two accepted bodies with different digests are saved under different
\* file names, so at Done the output directory holds as many files as images
\* were downloaded.
C38_DistinctFileNames ==
    /\ \A u, v \in Accepted :
          md5(dl_tasks[u].bytes) # md5(dl_tasks[v].bytes) =>
              FileName(u, md5(dl_tasks[u].bytes)) # FileName(v, md5(dl_tasks[v].bytes))
    /\ phase = "Done" => Cardinality(files) = stats.images_downloaded

\* C39: no URL of navbar_pages holds 'catalogue', in whatever case and whatever
\* form its href had, and no such URL is requested.
C39_NoCatalogueNavigation ==
    \A u \in navbar_pages \cup requested : ~Contains(u, "catalogue", TRUE)

=============================================================================
